---- MODULE Spec2Model ----
(***************************************************************************)
(* Model of the Telegram <-> Pager relay of src/main.py.                   *)
(*                                                                         *)
(* State: the rows of the sqlite table "map", and one record of each       *)
(* HTTP exchange (the request in flight at /telegram/webhook and the one   *)
(* in flight at /pager/outbound) together with the effects that exchange   *)
(* had so far (upserts, POSTs, chat messages). An exchange ends when its   *)
(* response is delivered; the two endpoints interleave at their awaits.    *)
(*                                                                         *)
(* Python values: None is the empty tuple and a present value x is <<x>>.  *)
(* A text is a sequence of one-character strings.                          *)
(***************************************************************************)
EXTENDS Integers, Sequences, FiniteSets, TLC

VARIABLES
    rows,        \* the rows of table map as the connection db sees them:
                 \*   records [key, chat]
    durable,     \* the committed rows of state.db
    notified,    \* history: the client external ids POSTed to the helpdesk
    tgPc,        \* /telegram/webhook: "idle", "received" or "done"
    tgUpdate,    \*   the request body (an update) of the exchange, or None
    tgUpserts,   \*   the upserts that exchange attempted, in order (write:
                 \*   how it ended; ok: upsert_map returned; old: the chat
                 \*   id stored before it)
    tgPosts,     \*   the payloads that exchange POSTed, in order
    tgNotify,    \*   how pager_post ended in that exchange, or None
    tgResponse,  \*   the HTTP response of that exchange, or None
    rpPc,        \* /pager/outbound: "idle", "body", "text", "urls" or "done"
    rpReq,       \*   the request (header and body) of the exchange, or None
    rpChat,      \*   local chat_id
    rpSentMsg,   \*   local sent_msg: None or <<message id>>
    rpSends,     \*   the chat messages the exchange sent, in order
    rpLookups,   \*   the reads of the table by the exchange, in order: how
                 \*   each ended ("ok" or "raises")
    rpKnown,     \*   history: c_ext had been notified when it was looked up
    rpResponse   \*   the HTTP response of the exchange, or None

vars == <<rows, durable, notified, tgPc, tgUpdate, tgUpserts, tgPosts, tgNotify,
          tgResponse, rpPc, rpReq, rpChat, rpSentMsg, rpSends, rpLookups,
          rpKnown, rpResponse>>

tgVars == <<tgPc, tgUpdate, tgUpserts, tgPosts, tgNotify, tgResponse>>
rpVars == <<rpPc, rpReq, rpChat, rpSentMsg, rpSends, rpLookups, rpKnown, rpResponse>>

-----------------------------------------------------------------------------
(* Bounds of the model                                                     *)

MaxTextLen == 2     \* texts and captions have at most this many characters
MaxChat == 1        \* chat ids are 0..MaxChat
MaxExtra == 1       \* attachment lists have up to AttachLimit + MaxExtra entries

Users == {1, 2}                 \* Telegram user ids
ChatIds == 0..MaxChat           \* Telegram chat ids
MsgIds == {11, 12}              \* message ids the chat platform assigns
Chars == {" ", "a"}             \* one whitespace and one other character

AttachLimit == 20

-----------------------------------------------------------------------------
(* Python values                                                           *)

None == <<>>
Some(x) == <<x>>
Val(o) == o[1]

RECURSIVE StrsOfLen(_)
StrsOfLen(n) ==
    IF n = 0 THEN {<<>>}
    ELSE {Append(s, c) : s \in StrsOfLen(n - 1), c \in Chars}

Strs == UNION {StrsOfLen(n) : n \in 0..MaxTextLen}

IsSpace(c) == c = " "

\* str.lstrip(), str.rstrip() and str.strip() on a sequence of characters
RECURSIVE lstrip(_)
lstrip(s) ==
    IF s = <<>> THEN <<>>
    ELSE IF IsSpace(Head(s)) THEN lstrip(Tail(s))
    ELSE s

RECURSIVE rstrip(_)
rstrip(s) ==
    IF s = <<>> THEN <<>>
    ELSE IF IsSpace(s[Len(s)]) THEN rstrip(SubSeq(s, 1, Len(s) - 1))
    ELSE s

strip(s) == rstrip(lstrip(s))

\* truth value of an optional text: None and "" are falsy
Truthy(o) == o # None /\ Val(o) # <<>>

\* a or b or "" on optional texts
OrText(a, b) ==
    IF Truthy(a) THEN Val(a)
    ELSE IF Truthy(b) THEN Val(b)
    ELSE <<>>

-----------------------------------------------------------------------------
(* The mapping table                                                       *)

client_external_id_from_user(user_id) == "tg_user:" \o ToString(user_id)

message_external_id(user_id, chat_id, message_id) ==
    "tg_msg:" \o ToString(user_id) \o ":" \o ToString(chat_id)
              \o ":" \o ToString(message_id)

Keys == {client_external_id_from_user(u) : u \in Users}

\* INSERT ... ON CONFLICT(client_external_id) DO UPDATE SET tg_chat_id = excluded
upsert_map(table, client_external_id, tg_chat_id) ==
    {r \in table : r.key # client_external_id}
        \cup {[key |-> client_external_id, chat |-> tg_chat_id]}

\* SELECT tg_chat_id ... WHERE client_external_id = ?; fetchone()
get_chat_id(table, client_external_id) ==
    LET found == {r \in table : r.key = client_external_id}
    IN  IF found = {} THEN None
        ELSE Some((CHOOSE r \in found : TRUE).chat)

-----------------------------------------------------------------------------
(* Inbound: Telegram -> relay -> Pager                                     *)

\* An update as Update.de_json yields it. The fields text, caption and
\* cmdEntity describe the effective message; hasMessage says whether that
\* message is update.message (it is not for an edited message). cmdEntity:
\* the first entity of the message is a bot_command at offset 0.
Upd(hasMessage, chatType, chatId, userId, text, caption, cmdEntity) ==
    [parses |-> TRUE, hasMessage |-> hasMessage, chatType |-> chatType,
     chatId |-> chatId, userId |-> userId, text |-> text, caption |-> caption,
     cmdEntity |-> cmdEntity, messageId |-> 7]

\* a request body that req.json() or Update.de_json rejects
BadBody ==
    [parses |-> FALSE, hasMessage |-> FALSE, chatType |-> "private",
     chatId |-> 0, userId |-> None, text |-> None, caption |-> None,
     cmdEntity |-> FALSE, messageId |-> 7]

OptStrs == {None} \cup {Some(s) : s \in Strs}

\* the captions of the updates: none, empty, blank, not blank
Captions == {None, Some(<<>>), Some(<<" ">>), Some(<<"a">>)}

\* text and caption of a message: a caption comes without body text, and a
\* command entity needs body text
TextShapes ==
    {<<t, c, e>> \in OptStrs \X Captions \X BOOLEAN :
        /\ (c # None => ~Truthy(t))
        /\ (e => Truthy(t))}

\* messages of every shape in every private chat, and in one group chat
\* (the handler returns on chat.type before it reads chat.id)
MessageUpdates ==
    {Upd(TRUE, "private", cid, Some(u), sh[1], sh[2], sh[3]) :
        cid \in ChatIds, u \in Users, sh \in TextShapes}
    \cup {Upd(TRUE, "group", MaxChat, Some(u), sh[1], sh[2], sh[3]) :
        u \in Users, sh \in TextShapes}

\* plain text messages without a sender (effective_user is None)
NoUserUpdates ==
    {Upd(TRUE, ct, cid, None, Some(<<"a">>), None, FALSE) :
        ct \in {"private", "group"}, cid \in ChatIds}

EditedUpdates ==
    {Upd(FALSE, "private", cid, Some(u), Some(<<"a">>), None, FALSE) :
        cid \in ChatIds, u \in Users}

Updates == {BadBody} \cup MessageUpdates \cup NoUserUpdates \cup EditedUpdates

\* the plain private text messages of every user
PlainUpdates ==
    {Upd(TRUE, "private", cid, Some(u), Some(<<"a">>), None, FALSE) :
        cid \in ChatIds, u \in Users}

\* the plain private text messages of user 1
SmallUpdates ==
    {Upd(TRUE, "private", cid, Some(1), Some(<<"a">>), None, FALSE) : cid \in ChatIds}

\* user.full_name of the users of the model
full_name(user_id) == IF user_id = 1 THEN <<"a", " ">> ELSE <<" ">>

\* filters.TEXT: the message has text
filters_TEXT(u) == Truthy(u.text)

\* filters.COMMAND: the text starts with a bot command
filters_COMMAND(u) == Truthy(u.text) /\ u.cmdEntity

\* MessageHandler(filters.TEXT & (~filters.COMMAND), on_user_message)
HandlerFilter(u) == filters_TEXT(u) /\ ~filters_COMMAND(u)

\* text = update.message.text or update.message.caption or ""
on_user_message_text(u) == OrText(u.text, u.caption)

\* not text.strip()
IsBlank(text) == strip(text) = <<>>

on_user_message_accepts_any_chat(u) ==
    /\ u.hasMessage
    /\ u.userId # None
    /\ ~IsBlank(on_user_message_text(u))

\* the early returns of on_user_message
on_user_message_accepts(u) ==
    /\ u.hasMessage
    /\ u.userId # None
    /\ u.chatType = "private"
    /\ ~IsBlank(on_user_message_text(u))

\* (user.full_name or "").strip() or None; None: the key is popped
client_name(user_id) ==
    IF strip(full_name(user_id)) = <<>> THEN None
    ELSE Some(strip(full_name(user_id)))

NotificationPayload_outgoing(u) ==
    [event |-> "message.created",
     client |-> [externalId |-> client_external_id_from_user(Val(u.userId)),
                 name |-> client_name(Val(u.userId))],
     message |-> [externalId |->
                      message_external_id(Val(u.userId), u.chatId, u.messageId),
                  direction |-> "outgoing",
                  text |-> on_user_message_text(u),
                  attachments |-> <<>>]]

\* the payload on_user_message builds
NotificationPayload(u) ==
    [event |-> "message.created",
     client |-> [externalId |-> client_external_id_from_user(Val(u.userId)),
                 name |-> client_name(Val(u.userId))],
     message |-> [externalId |->
                      message_external_id(Val(u.userId), u.chatId, u.messageId),
                  direction |-> "incoming",
                  text |-> on_user_message_text(u),
                  attachments |-> <<>>]]

\* how requests.post ends: a response with a status, or an exception
PostOutcomes ==
    {[kind |-> "response", status |-> 200],
     [kind |-> "response", status |-> 400],
     [kind |-> "response", status |-> 503],
     [kind |-> "timeout", status |-> 0],
     [kind |-> "connection_error", status |-> 0]}

PostOk == [kind |-> "response", status |-> 200]

\* a POST that succeeds and one that raises
PlainPostOutcomes == {PostOk, [kind |-> "timeout", status |-> 0]}

pager_post_retry(outcome) ==
    [attempts |-> IF outcome = PostOk THEN 1 ELSE 2,
     raised |-> outcome.kind # "response",
     logged |-> outcome.kind = "response" /\ outcome.status >= 400]

\* pager_post: one requests.post; an exception of it is not caught here
pager_post(outcome) ==
    [attempts |-> 1,
     raised |-> outcome.kind # "response",
     logged |-> outcome.kind = "response" /\ outcome.status >= 400]

OkAck == [status |-> 200, body |-> "ok:true"]

WebhookResponse_no_try(raised) ==
    IF raised THEN [status |-> 500, body |-> "Internal Server Error"] ELSE OkAck

\* try: ... except Exception: print(...); return {"ok": True}
WebhookResponse(raised) == OkAck

\* POST /telegram/webhook with body u arrives (await req.json())
telegram_receive(u) ==
    /\ tgPc = "idle"
    /\ tgPc' = "received"
    /\ tgUpdate' = Some(u)
    /\ UNCHANGED <<rows, durable, notified, tgUpserts, tgPosts, tgNotify,
                   tgResponse, rpVars>>

\* How upsert_map ends. The code never rolls back, so what the handlers
\* read afterwards is what sqlite leaves in the connection db:
\*   "ok"                  it returns: the open transaction is committed;
\*   "execute_raises"      execute raises on a lock: nothing is written and
\*                         the open transaction, if any, stays;
\*   "execute_rolls_back"  execute raises on a disk error: sqlite rolls the
\*                         open transaction back;
\*   "commit_raises"       commit raises on a lock after the INSERT ran: the
\*                         row stays written in the open transaction, where
\*                         every later read of the process sees it, and the
\*                         next commit that succeeds makes it durable;
\*   "commit_rolls_back"   commit raises on a disk error: sqlite rolls the
\*                         open transaction back, this row and the rows
\*                         left by earlier failed commits included.
WriteOutcomes ==
    {"ok", "execute_raises", "execute_rolls_back", "commit_raises",
     "commit_rolls_back"}

\* the open transaction is rolled back
RollsBack(write) == write \in {"execute_rolls_back", "commit_rolls_back"}

\* The body of telegram_webhook. write: how the table write ends; outcome:
\* how the POST to the helpdesk ends. on_user_message has no await between
\* its upsert and its POST, so the handling is one step.
telegram_webhook(write, outcome) ==
    LET u == Val(tgUpdate)
        ran == u.parses /\ HandlerFilter(u) /\ on_user_message_accepts(u)
        c_ext == client_external_id_from_user(Val(u.userId))
        written == ran /\ write \in {"ok", "commit_raises"}  \* the row stays
        stored == ran /\ write = "ok"                \* upsert_map returned
        posted == stored                             \* pager_post was called
        n == pager_post(outcome)
        raised == ~u.parses \/ (ran /\ ~stored) \/ (posted /\ n.raised)
    IN  /\ tgPc = "received"
        /\ tgPc' = "done"
        /\ rows' = IF written THEN upsert_map(rows, c_ext, u.chatId)
                   ELSE IF ran /\ RollsBack(write) THEN durable
                   ELSE rows
        /\ durable' = IF stored THEN upsert_map(rows, c_ext, u.chatId) ELSE durable
        /\ notified' = IF posted THEN notified \cup {c_ext} ELSE notified
        /\ tgUpserts' = IF ran
                        THEN <<[key |-> c_ext, chat |-> u.chatId, write |-> write,
                                ok |-> write = "ok",
                                old |-> get_chat_id(rows, c_ext)]>>
                        ELSE <<>>
        /\ tgPosts' = IF posted
                      THEN [i \in 1..n.attempts |-> NotificationPayload(u)]
                      ELSE <<>>
        /\ tgNotify' = IF posted
                       THEN Some([outcome |-> outcome, raised |-> n.raised,
                                  logged |-> n.logged])
                       ELSE None
        /\ tgResponse' = Some(WebhookResponse(raised))
        /\ UNCHANGED <<tgUpdate, rpVars>>

\* the response is delivered and the exchange is over
telegram_respond ==
    /\ tgPc = "done"
    /\ tgPc' = "idle"
    /\ tgUpdate' = None
    /\ tgUpserts' = <<>>
    /\ tgPosts' = <<>>
    /\ tgNotify' = None
    /\ tgResponse' = None
    /\ UNCHANGED <<rows, durable, notified, rpVars>>

-----------------------------------------------------------------------------
(* Outbound: Pager -> relay -> Telegram                                    *)

PAGER_KEY == "secret"

JsonNull == "<null>"

\* the URL carried by the attachment at position i
Url(i) == <<"u", ToString(i)>>

\* n attachments; those at the positions of skip carry no URL (no payload
\* or no url at odd positions, an empty url at even ones)
MkAtts(n, skip) ==
    [i \in 1..n |->
        IF i \in skip
        THEN (IF i % 2 = 1 THEN None ELSE Some(<<>>))
        ELSE Some(Url(i))]

AttLens == {0, 1} \cup {AttachLimit + d : d \in 0..MaxExtra}

SkipSets == {{}, {1}, 1..AttachLimit}

\* an attachment entry that is not a JSON object (the string "http://x"):
\* the one entry of two components
NotObject == <<<<"h">>, <<"x">>>>

\* lists with an entry that is not an object: within the entries the loop
\* reads, and after them
BadAttLists == {<<NotObject>>, MkAtts(AttachLimit, {}) \o <<NotObject>>}

AttLists == {MkAtts(n, skip) : n \in AttLens, skip \in SkipSets} \cup BadAttLists

\* a body that is a JSON object
Pay(event, externalId, text, attachments, pagerMessageId) ==
    [valid |-> TRUE, client |-> "object", message |-> "object",
     event |-> event, externalId |-> externalId, text |-> text,
     attachments |-> attachments, pagerMessageId |-> pagerMessageId]

\* a body that is not JSON, or not a JSON object
BadJson ==
    [valid |-> FALSE, client |-> "object", message |-> "object",
     event |-> "", externalId |-> None, text |-> None,
     attachments |-> None, pagerMessageId |-> None]

\* What a "client" or "message" of the body is: an object (or absent); a
\* value that is not an object and falsy (null, "", 0, false, []), which
\* `or {}` replaces by the empty object; or a value that is not an object
\* and truthy (a non-empty string), whose .get raises.
ValueKinds == {"object", "falsy", "truthy"}

\* x.get(...) raises
GetRaises(kind) == kind = "truthy"

\* a "message.created" body whose "client" is not an object
BadClient(kind) ==
    [Pay("message.created", None, Some(<<"a">>), None, None)
        EXCEPT !.client = kind]

\* a "message.created" body of client k whose "message" is not an object
BadMessage(k, kind) ==
    [Pay("message.created", Some(k), None, None, None)
        EXCEPT !.message = kind]

\* the bodies that are not reply payloads
BadBodies ==
    {BadJson}
        \cup {BadClient(kind) : kind \in ValueKinds \ {"object"}}
        \cup {BadMessage(k, kind) : k \in Keys, kind \in ValueKinds \ {"object"}}

\* message.text of a reply: absent, empty, blank, padded and plain
ReplyTexts == {None, Some(<<>>), Some(<<" ">>), Some(<<" ", "a", " ">>), Some(<<"a">>)}

Payloads ==
    {Pay(ev, ext, t, atts, pm) :
        ev \in {"message.created", "message.updated"},
        ext \in {None, Some("")} \cup {Some(k) : k \in Keys},
        t \in ReplyTexts,
        atts \in {None} \cup {Some(l) : l \in AttLists},
        pm \in {None, Some(JsonNull), Some("pm1")}}

PlainPayload(k) ==
    Pay("message.created", Some(k), Some(<<"a">>), Some(MkAtts(1, {})), None)

HeaderKeys == {None, Some(PAGER_KEY), Some("wrong")}

\* requests to /pager/outbound: header x-channel-key and JSON body
Requests ==
    {[key |-> Some(PAGER_KEY), body |-> p] : p \in Payloads}
        \cup {[key |-> k, body |-> PlainPayload(c)] : k \in HeaderKeys, c \in Keys}
        \cup {[key |-> k, body |-> b] : k \in HeaderKeys, b \in BadBodies}

\* requests with every key, event and client.externalId, and with every
\* body that is not a reply payload
CheckRequests ==
    {[key |-> k, body |-> b] :
        k \in HeaderKeys,
        b \in {Pay(ev, ext, Some(<<"a">>), Some(MkAtts(1, {})), None) :
                  ev \in {"message.created", "message.updated"},
                  ext \in {None, Some("")} \cup {Some(c) : c \in Keys}}
              \cup BadBodies}

SmallRequests ==
    {[key |-> k, body |-> PlainPayload(c)] :
        k \in {Some(PAGER_KEY), Some("wrong")}, c \in Keys}

\* how bot.send_message ends: the id of the sent message, or None (it
\* raised); the ids the chat platform assigns in a chat increase
SendOutcomes == {None} \cup {Some(id) : id \in MsgIds}

KeyMatches_any(x_channel_key) == TRUE

\* x_channel_key != PAGER_KEY
KeyMatches(x_channel_key) == x_channel_key = Some(PAGER_KEY)

\* not c_ext
MissingExternalId(c_ext) == c_ext = None \/ Val(c_ext) = ""

\* not chat_id
NoChatId(chat_id) == chat_id = None \/ Val(chat_id) = 0

\* (msg_obj.get("text") or "").strip()
reply_text(body) == strip(OrText(body.text, None))

\* msg_obj.get("attachments") or []
reply_attachments(body) ==
    IF body.attachments = None THEN <<>> ELSE Val(body.attachments)

Min(a, b) == IF a < b THEN a ELSE b

\* an attachment entry a with a.get: a JSON object
IsObject(a) == Len(a) <= 1

\* the loop over the entries: the URLs collected, and whether a.get raised
RECURSIVE url_loop(_, _)
url_loop(atts, urls) ==
    IF atts = <<>> THEN [urls |-> urls, raised |-> FALSE]
    ELSE IF ~IsObject(Head(atts)) THEN [urls |-> urls, raised |-> TRUE]
    ELSE url_loop(Tail(atts),
                  IF Truthy(Head(atts)) THEN Append(urls, Val(Head(atts)))
                  ELSE urls)

RECURSIVE url_loop_limit(_, _)
url_loop_limit(atts, urls) ==
    IF atts = <<>> \/ Len(urls) = AttachLimit THEN [urls |-> urls, raised |-> FALSE]
    ELSE IF ~IsObject(Head(atts)) THEN [urls |-> urls, raised |-> TRUE]
    ELSE url_loop_limit(Tail(atts),
                        IF Truthy(Head(atts)) THEN Append(urls, Val(Head(atts)))
                        ELSE urls)

collect_urls_limit_after_skip(attachments) == url_loop_limit(attachments, <<>>)

\* urls = []; for a in attachments[:20]: url = ...; if url: urls.append(url)
collect_urls(attachments) ==
    url_loop(SubSeq(attachments, 1, Min(AttachLimit, Len(attachments))), <<>>)

\* "\n".join(urls)
RECURSIVE join(_)
join(urls) ==
    IF urls = <<>> THEN <<>>
    ELSE IF Len(urls) = 1 THEN Head(urls)
    ELSE Head(urls) \o <<"\n">> \o join(Tail(urls))

select_sent_msg_last(sent_msg, sent2) == sent2

\* sent_msg = sent2 if not sent_msg else sent_msg
select_sent_msg(sent_msg, sent2) == IF sent_msg = None THEN sent2 ELSE sent_msg

\* f"{...}" of msg_obj.get("pagerMessageId", "")
pager_message_id_str(body) ==
    IF body.pagerMessageId = None THEN ""
    ELSE IF Val(body.pagerMessageId) = JsonNull THEN "None"
    ELSE Val(body.pagerMessageId)

\* external_id = f"bot:{chat_id}:{sent_msg.message_id}" if sent_msg else f"pager:..."
external_id(chat_id, sent_msg, body) ==
    IF sent_msg # None
    THEN "bot:" \o ToString(chat_id) \o ":" \o ToString(Val(sent_msg))
    ELSE "pager:" \o pager_message_id_str(body)

\* the exchange ends before any send: an HTTPException, "ignored", or an
\* exception of request.json(), of a .get or of get_chat_id
Reject(status, detail, lookups, known) ==
    /\ rpPc' = "done"
    /\ rpResponse' = Some([status |-> status, body |-> detail])
    /\ rpLookups' = lookups
    /\ rpKnown' = known
    /\ UNCHANGED <<rpChat, rpSentMsg, rpSends>>

\* POST /pager/outbound with request req arrives: the key check, up to
\* await request.json()
pager_outbound_auth(req) ==
    /\ rpPc = "idle"
    /\ rpReq' = Some(req)
    /\ IF ~KeyMatches(req.key)
       THEN Reject(401, "bad x-channel-key", <<>>, FALSE)
       ELSE /\ rpPc' = "body"
            /\ UNCHANGED <<rpChat, rpSentMsg, rpSends, rpLookups, rpKnown,
                           rpResponse>>
    /\ UNCHANGED <<rows, durable, notified, tgVars>>

\* how the SELECT of get_chat_id ends:
\*   "ok"          it returns the rows found;
\*   "raises"      it raises on a lock: the table is as before;
\*   "rolls_back"  it raises on a disk error: sqlite rolls the open
\*                 transaction back, and the rows left by earlier failed
\*                 commits disappear.
ReadOutcomes == {"ok", "raises", "rolls_back"}

ServerError == "Internal Server Error"

\* the body has arrived: the checks of the payload and the table read, up
\* to the first await of a send. read: how the SELECT ends, if it is made.
pager_outbound_check(read) ==
    LET body == Val(rpReq).body
        c_ext == body.externalId
        chat_id == get_chat_id(rows, Val(c_ext))
        \* get_chat_id is called
        looks == /\ body.valid
                 /\ body.event = "message.created"
                 /\ ~GetRaises(body.client)
                 /\ ~MissingExternalId(c_ext)
    IN  /\ rpPc = "body"
        /\ IF ~body.valid
           THEN Reject(500, ServerError, <<>>, FALSE)
           ELSE IF body.event # "message.created"
           THEN Reject(200, "ignored", <<>>, FALSE)
           ELSE IF GetRaises(body.client)
           THEN Reject(500, ServerError, <<>>, FALSE)
           ELSE IF MissingExternalId(c_ext)
           THEN Reject(400, "missing client.externalId", <<>>, FALSE)
           ELSE IF read # "ok"
           THEN Reject(500, ServerError, <<read>>, Val(c_ext) \in notified)
           ELSE IF NoChatId(chat_id)
           THEN Reject(400, "unknown client.externalId (no mapping yet)",
                       <<read>>, Val(c_ext) \in notified)
           ELSE IF GetRaises(body.message)
           THEN Reject(500, ServerError, <<read>>, Val(c_ext) \in notified)
           ELSE /\ rpPc' = "text"
                /\ rpChat' = Val(chat_id)
                /\ rpSentMsg' = None
                /\ rpLookups' = <<read>>
                /\ rpKnown' = (Val(c_ext) \in notified)
                /\ UNCHANGED <<rpSends, rpResponse>>
        /\ rows' = IF looks /\ read = "rolls_back" THEN durable ELSE rows
        /\ UNCHANGED <<durable, notified, tgVars, rpReq>>

\* a send, or the loop over the attachments, raised: the request fails with
\* a server error
SendFailed ==
    /\ rpPc' = "done"
    /\ rpResponse' = Some([status |-> 500, body |-> ServerError])
    /\ UNCHANGED <<rpSentMsg, rpSends>>

\* if text: sent_msg = await tg_app.bot.send_message(chat_id=chat_id, text=text)
pager_outbound_text(sent) ==
    LET text == reply_text(Val(rpReq).body)
    IN  /\ rpPc = "text"
        /\ IF text = <<>>
           THEN /\ rpPc' = "urls"
                /\ UNCHANGED <<rpSentMsg, rpSends, rpResponse>>
           ELSE IF sent = None
           THEN SendFailed
           ELSE /\ rpPc' = "urls"
                /\ rpSentMsg' = sent
                /\ rpSends' = Append(rpSends, [chat |-> rpChat, text |-> text,
                                               id |-> Val(sent)])
                /\ UNCHANGED rpResponse
        /\ UNCHANGED <<rows, durable, notified, tgVars,
                       rpReq, rpChat, rpLookups, rpKnown>>

\* the URL message, and the response
pager_outbound_urls(sent2) ==
    LET body == Val(rpReq).body
        loop == collect_urls(reply_attachments(body))
        urls == loop.urls
    IN  /\ rpPc = "urls"
        /\ (sent2 # None /\ rpSentMsg # None) => Val(sent2) > Val(rpSentMsg)
        /\ IF loop.raised
           THEN SendFailed
           ELSE IF urls = <<>>
           THEN /\ rpPc' = "done"
                /\ rpResponse' = Some([status |-> 200,
                                       body |-> external_id(rpChat, rpSentMsg, body)])
                /\ UNCHANGED <<rpSentMsg, rpSends>>
           ELSE IF sent2 = None
           THEN SendFailed
           ELSE /\ rpPc' = "done"
                /\ rpSentMsg' = select_sent_msg(rpSentMsg, sent2)
                /\ rpSends' = Append(rpSends, [chat |-> rpChat, text |-> join(urls),
                                               id |-> Val(sent2)])
                /\ rpResponse' = Some([status |-> 200,
                                       body |-> external_id(rpChat,
                                                    select_sent_msg(rpSentMsg, sent2),
                                                    body)])
        /\ UNCHANGED <<rows, durable, notified, tgVars,
                       rpReq, rpChat, rpLookups, rpKnown>>

\* the response is delivered and the exchange is over
pager_outbound_respond ==
    /\ rpPc = "done"
    /\ rpPc' = "idle"
    /\ rpReq' = None
    /\ rpChat' = 0
    /\ rpSentMsg' = None
    /\ rpSends' = <<>>
    /\ rpLookups' = <<>>
    /\ rpKnown' = FALSE
    /\ rpResponse' = None
    /\ UNCHANGED <<rows, durable, notified, tgVars>>

-----------------------------------------------------------------------------
(* Specifications                                                          *)

Init ==
    /\ rows = {}
    /\ durable = {}
    /\ notified = {}
    /\ tgPc = "idle"
    /\ tgUpdate = None
    /\ tgUpserts = <<>>
    /\ tgPosts = <<>>
    /\ tgNotify = None
    /\ tgResponse = None
    /\ rpPc = "idle"
    /\ rpReq = None
    /\ rpChat = 0
    /\ rpSentMsg = None
    /\ rpSends = <<>>
    /\ rpLookups = <<>>
    /\ rpKnown = FALSE
    /\ rpResponse = None

\* The relay: plain messages of every user in every chat, plain replies to
\* every client, every outcome of the table write and of the sends, a POST
\* that succeeds or raises, every interleaving.
Next ==
    \/ \E u \in PlainUpdates : telegram_receive(u)
    \/ \E write \in WriteOutcomes, outcome \in PlainPostOutcomes :
          telegram_webhook(write, outcome)
    \/ telegram_respond
    \/ \E req \in SmallRequests : pager_outbound_auth(req)
    \/ \E read \in ReadOutcomes : pager_outbound_check(read)
    \/ \E sent \in SendOutcomes : pager_outbound_text(sent)
    \/ \E sent2 \in SendOutcomes : pager_outbound_urls(sent2)
    \/ pager_outbound_respond

Spec == Init /\ [][Next]_vars

\* The inbound endpoint on every update and every outcome of its I/O.
NextInbound ==
    \/ \E u \in Updates : telegram_receive(u)
    \/ \E write \in WriteOutcomes, outcome \in PostOutcomes :
          telegram_webhook(write, outcome)
    \/ telegram_respond

SpecInbound == Init /\ [][NextInbound]_vars

\* The reply endpoint on every request, every outcome of its read and of
\* its sends, interleaved with plain inbound messages of user 1.
NextReply ==
    \/ \E u \in SmallUpdates : telegram_receive(u)
    \/ telegram_webhook("ok", PostOk)
    \/ telegram_respond
    \/ \E req \in Requests : pager_outbound_auth(req)
    \/ \E read \in ReadOutcomes : pager_outbound_check(read)
    \/ \E sent \in SendOutcomes : pager_outbound_text(sent)
    \/ \E sent2 \in SendOutcomes : pager_outbound_urls(sent2)
    \/ pager_outbound_respond

SpecReply == Init /\ [][NextReply]_vars

\* The checks of the reply endpoint on every key, event, client and body
\* that is not a reply payload, with every outcome of its read and of its
\* sends, interleaved with plain inbound messages of user 1 whose write is
\* committed or is left uncommitted by a commit that raises.
NextCheck ==
    \/ \E u \in SmallUpdates : telegram_receive(u)
    \/ \E write \in {"ok", "commit_raises"} : telegram_webhook(write, PostOk)
    \/ telegram_respond
    \/ \E req \in CheckRequests : pager_outbound_auth(req)
    \/ \E read \in ReadOutcomes : pager_outbound_check(read)
    \/ \E sent \in SendOutcomes : pager_outbound_text(sent)
    \/ \E sent2 \in SendOutcomes : pager_outbound_urls(sent2)
    \/ pager_outbound_respond

SpecCheck == Init /\ [][NextCheck]_vars

-----------------------------------------------------------------------------
(* Properties of the inbound endpoint (SpecInbound)                        *)

\* an optional text that is absent, empty or whitespace-only
Blank(o) == o = None \/ strip(Val(o)) = <<>>

Handled == tgPc = "done"

\* the handled update is a message of a private chat with non-blank text
PrivateText(u) ==
    u.parses /\ u.hasMessage /\ u.chatType = "private" /\ ~Blank(u.text)

\* the exchange made one notification, of the given text, for update u
OneNotification(u, text) ==
    /\ Len(tgPosts) = 1
    /\ tgPosts[1].event = "message.created"
    /\ tgPosts[1].client.externalId = "tg_user:" \o ToString(Val(u.userId))
    /\ tgPosts[1].message.direction = "incoming"
    /\ tgPosts[1].message.text = text
    /\ tgPosts[1].message.attachments = <<>>

\* the exchange made one upsert, of the user and chat of update u
OneUpsert(u) ==
    /\ Len(tgUpserts) = 1
    /\ tgUpserts[1].key = "tg_user:" \o ToString(Val(u.userId))
    /\ tgUpserts[1].chat = u.chatId

\* C1 as stated: every private-chat message (of an identified user) with
\* non-blank text, a bot command included, makes exactly one upsert of
\* ("tg_user:<user id>", chat id) and (the write succeeding) exactly one
\* notification with event "message.created", direction "incoming", the
\* message text and no attachments.
C1_EveryPrivateTextNotified ==
    (Handled /\ PrivateText(Val(tgUpdate)) /\ Val(tgUpdate).userId # None)
        => /\ OneUpsert(Val(tgUpdate))
           /\ (tgUpserts[1].ok
                 => OneNotification(Val(tgUpdate), Val(Val(tgUpdate).text)))

\* C1 amended: every private-chat message of an identified user with
\* non-blank text that is not a bot command makes exactly one upsert of
\* ("tg_user:<user id>", chat id); if that write succeeds it makes exactly
\* one notification with event "message.created", direction "incoming", the
\* message text and no attachments, and if the write fails it makes none.
C1_NonCommandTextNotified ==
    (Handled /\ PrivateText(Val(tgUpdate)) /\ Val(tgUpdate).userId # None
        /\ ~Val(tgUpdate).cmdEntity)
        => /\ OneUpsert(Val(tgUpdate))
           /\ (tgUpserts[1].ok
                 => OneNotification(Val(tgUpdate), Val(Val(tgUpdate).text)))
           /\ (~tgUpserts[1].ok => tgPosts = <<>>)

\* a private text message with surrounding whitespace was stored and notified
C1_Witness ==
    /\ Handled
    /\ PrivateText(Val(tgUpdate))
    /\ Val(tgUpdate).userId # None
    /\ ~Val(tgUpdate).cmdEntity
    /\ Val(tgUpdate).text = Some(<<" ", "a">>)
    /\ Len(tgUpserts) = 1 /\ tgUpserts[1].ok
    /\ Len(tgPosts) = 1

\* C3: a private-chat message without body text and with a non-blank caption
\* is processed like a text message: one upsert, and (the write succeeding)
\* one notification whose text is the caption.
C3_CaptionNotified ==
    (Handled /\ Val(tgUpdate).parses /\ Val(tgUpdate).hasMessage
        /\ Val(tgUpdate).chatType = "private" /\ Val(tgUpdate).userId # None
        /\ ~Truthy(Val(tgUpdate).text) /\ ~Blank(Val(tgUpdate).caption))
        => /\ OneUpsert(Val(tgUpdate))
           /\ (tgUpserts[1].ok
                 => OneNotification(Val(tgUpdate), Val(Val(tgUpdate).caption)))

\* C4: whatever the request and whatever the outcome of its processing, the
\* inbound webhook answers 200 {ok: true}.
C4_AlwaysAcknowledged ==
    /\ (Handled => tgResponse = Some([status |-> 200, body |-> "ok:true"]))
    /\ (~Handled => tgResponse = None)

\* the acknowledgment was given although the POST to the helpdesk timed out
C4_Witness ==
    /\ Handled
    /\ tgNotify # None
    /\ Val(tgNotify).outcome.kind = "timeout"
    /\ tgResponse = Some([status |-> 200, body |-> "ok:true"])

\* C5 as stated: notify never reports a failure to its caller, a timeout
\* being handled like a status >= 400 (logged, swallowed, normal return),
\* and makes exactly one POST.
C5_NotifyNeverRaises ==
    tgNotify # None
        => /\ ~Val(tgNotify).raised
           /\ Len(tgPosts) = 1

\* C5 amended: notify makes exactly one POST; a response is never reported
\* to the caller, and is logged exactly if its status is >= 400; a timeout
\* or a connection error is raised to the caller, and the inbound webhook
\* that called it still answers 200 {ok: true}.
C5_NotifyOnePostStatusSwallowed ==
    tgNotify # None
        => /\ Len(tgPosts) = 1
           /\ (Val(tgNotify).outcome.kind = "response"
                 => /\ ~Val(tgNotify).raised
                    /\ (Val(tgNotify).logged <=> Val(tgNotify).outcome.status >= 400))
           /\ (Val(tgNotify).outcome.kind # "response"
                 => Val(tgNotify).raised /\ ~Val(tgNotify).logged)
           /\ tgResponse = Some([status |-> 200, body |-> "ok:true"])

\* a status-503 response was logged and swallowed after one POST
C5_Witness ==
    /\ tgNotify # None
    /\ Val(tgNotify).outcome = [kind |-> "response", status |-> 503]
    /\ Val(tgNotify).logged
    /\ ~Val(tgNotify).raised
    /\ Len(tgPosts) = 1

\* the update is of a chat that is not private, or has neither text nor caption
Unsupported(u) ==
    u.chatType # "private" \/ (Blank(u.text) /\ Blank(u.caption))

\* C8: handling an update of a chat that is not private, or whose text and
\* caption are both empty or whitespace-only, makes no upsert and no
\* notification: the table is left unchanged and nothing is POSTed.
C8_UnsupportedHasNoEffect ==
    [][(tgPc = "received" /\ tgPc' = "done" /\ Unsupported(Val(tgUpdate)))
          => /\ rows' = rows
             /\ notified' = notified
             /\ tgUpserts' = <<>>
             /\ tgPosts' = <<>>]_vars

\* a group-chat text message of a known user was handled without effect
C8_Witness ==
    /\ Handled
    /\ Val(tgUpdate).parses /\ Val(tgUpdate).hasMessage
    /\ Val(tgUpdate).chatType = "group"
    /\ Val(tgUpdate).userId # None
    /\ Val(tgUpdate).text = Some(<<"a">>)
    /\ ~Val(tgUpdate).cmdEntity
    /\ tgUpserts = <<>> /\ tgPosts = <<>>

-----------------------------------------------------------------------------
(* Properties of the mapping table and of the relay as a whole (Spec)      *)

\* the exchange of the inbound endpoint has just applied an upsert of key k:
\* its row could be read when upsert_map ended
Applied(k) ==
    /\ tgPc = "done"
    /\ tgUpserts # <<>>
    /\ tgUpserts[1].key = k
    /\ tgUpserts[1].write \in {"ok", "commit_raises"}

\* C7: whatever the interleaving of the handlers, the table holds at most
\* one chat id per client external id; a lookup returns the chat id of the
\* last upsert applied to the key (right after an upsert its chat id, and
\* from then on the same chat id until the next upsert of the key is
\* applied) and None for a key never upserted; and no record is ever
\* removed.
C7_LastWriteWins ==
    /\ [](\A k \in Keys :
             /\ Cardinality({r \in rows : r.key = k}) <= 1
             /\ Applied(k) => get_chat_id(rows, k) = Some(tgUpserts[1].chat))
    /\ [][\A k \in Keys :
             get_chat_id(rows', k) # get_chat_id(rows, k)
                => tgPc = "received" /\ Applied(k)']_vars
    /\ [][\A r \in rows : \E r2 \in rows' : r2.key = r.key]_vars

\* C9: the write precedes the dispatch: a notified client has a stored
\* mapping, so a correctly keyed "message.created" reply for a client that
\* had been notified is never rejected as an unknown client.
C9_NotifiedClientIsKnown ==
    /\ \A x \in notified : get_chat_id(rows, x) # None
    /\ (rpPc = "done" /\ rpKnown /\ Val(rpReq).key = Some(PAGER_KEY)
          /\ Val(rpReq).body.event = "message.created")
          => Val(rpResponse).status # 400

-----------------------------------------------------------------------------
(* Properties of the reply endpoint (SpecCheck, SpecReply)                 *)

\* the request carries the channel key; its body is a JSON object; with
\* the event "message.created"; with a client that can be read (an object,
\* or a falsy value replaced by the empty object); with a client.externalId
Authorized(req) == req.key = Some("secret")
IsJsonObject(req) == req.body.valid
Created(req) == req.body.valid /\ req.body.event = "message.created"
HasClient(req) == Created(req) /\ ~GetRaises(req.body.client)
HasExternalId(req) == HasClient(req) /\ req.body.externalId \notin {None, Some("")}

\* the body is a reply payload: a JSON object whose client and message, if
\* it has the event "message.created", are objects
IsPayload(req) ==
    /\ req.body.valid
    /\ Created(req) => req.body.client = "object" /\ req.body.message = "object"

\* the exchange ended with this response and sent no chat message
Refused(status, detail) ==
    /\ rpPc = "done"
    /\ rpResponse = Some([status |-> status, body |-> detail])
    /\ rpSends = <<>>

\* the body of the request has been read and checked
Checked == rpPc \in {"text", "urls", "done"}

\* C6 as stated: a reply request that fails a check: a wrong or missing key
\* gives 401 without a read of the table; a reply payload with another
\* event type gives the non-error "ignored"; one with a missing
\* client.externalId, or with one that has no mapping, gives 400; no chat
\* message is sent.
C6_FailedCheckIsRefused ==
    (rpReq # None /\ (Checked \/ ~Authorized(Val(rpReq)))
       /\ IsPayload(Val(rpReq))) =>
        /\ (~Authorized(Val(rpReq))
              => Refused(401, "bad x-channel-key") /\ rpLookups = <<>>)
        /\ (Authorized(Val(rpReq)) /\ ~Created(Val(rpReq))
              => Refused(200, "ignored"))
        /\ (Authorized(Val(rpReq)) /\ Created(Val(rpReq))
              /\ ~HasExternalId(Val(rpReq))
              => Refused(400, "missing client.externalId"))
        /\ (Authorized(Val(rpReq)) /\ HasExternalId(Val(rpReq))
              /\ get_chat_id(rows, Val(Val(rpReq).body.externalId)) = None
              => Refused(400, "unknown client.externalId (no mapping yet)"))

\* C6 amended: a wrong or missing key gives 401 without a read of the
\* table, before the body is read. Once the body has been checked: a body
\* that is not a JSON object gives a server error; another event type gives
\* the non-error "ignored"; a client that is a truthy value other than an
\* object gives a server error; a missing client.externalId (also when the
\* client is absent or a falsy value) gives 400; all of these without a
\* read of the table. Otherwise the table is read once: if the read raises,
\* the request fails with a server error; if it finds no mapping, with 400.
\* In all these cases no chat message is sent. No step of the reply
\* endpoint changes the committed table, and none changes the table the
\* handlers read, except a read that raises on a disk error: it leaves the
\* committed table there, without the rows of failed commits.
C6_FailedCheckHasNoEffect ==
    /\ [](rpReq # None =>
            /\ (~Authorized(Val(rpReq))
                  => Refused(401, "bad x-channel-key") /\ rpLookups = <<>>)
            /\ (Authorized(Val(rpReq)) /\ ~Checked
                  => rpPc = "body" /\ rpSends = <<>> /\ rpLookups = <<>>)
            /\ (Authorized(Val(rpReq)) /\ Checked /\ ~IsJsonObject(Val(rpReq))
                  => Refused(500, ServerError) /\ rpLookups = <<>>)
            /\ (Authorized(Val(rpReq)) /\ Checked /\ IsJsonObject(Val(rpReq))
                  /\ ~Created(Val(rpReq))
                  => Refused(200, "ignored") /\ rpLookups = <<>>)
            /\ (Authorized(Val(rpReq)) /\ Checked /\ Created(Val(rpReq))
                  /\ ~HasClient(Val(rpReq))
                  => Refused(500, ServerError) /\ rpLookups = <<>>)
            /\ (Authorized(Val(rpReq)) /\ Checked /\ HasClient(Val(rpReq))
                  /\ ~HasExternalId(Val(rpReq))
                  => Refused(400, "missing client.externalId") /\ rpLookups = <<>>)
            /\ (Authorized(Val(rpReq)) /\ Checked /\ HasExternalId(Val(rpReq))
                  => /\ Len(rpLookups) = 1
                     /\ rpLookups # <<"ok">> => Refused(500, ServerError)
                     /\ (rpLookups = <<"ok">>
                           /\ get_chat_id(rows, Val(Val(rpReq).body.externalId)) = None)
                           => Refused(400, "unknown client.externalId (no mapping yet)")))
    /\ [][rpVars' # rpVars =>
            /\ durable' = durable
            /\ rows' # rows => rows' = durable /\ rpLookups' = <<"rolls_back">>]_vars

\* while the row of an upsert whose commit raised was in the table, the
\* read of a correctly keyed reply raised on a disk error: the request
\* failed with a server error, nothing was sent, and the row is gone
C6_Witness ==
    /\ rpReq # None
    /\ Authorized(Val(rpReq))
    /\ HasExternalId(Val(rpReq))
    /\ IsPayload(Val(rpReq))
    /\ rpLookups = <<"rolls_back">>
    /\ Refused(500, ServerError)
    /\ tgPc = "done"
    /\ tgUpserts # <<>>
    /\ tgUpserts[1].write = "commit_raises"
    /\ get_chat_id(rows, tgUpserts[1].key) = None

\* the exchange passed all checks and returned an externalMessageId
Replied ==
    /\ rpPc = "done"
    /\ Authorized(Val(rpReq)) /\ Created(Val(rpReq))
    /\ Val(rpResponse).status = 200

\* "pager:" and the pagerMessageId: nothing for an absent one, and the
\* Python rendering "None" of a JSON null
PagerId(body) ==
    "pager:" \o (IF body.pagerMessageId = None THEN ""
                 ELSE IF body.pagerMessageId = Some(JsonNull) THEN "None"
                 ELSE Val(body.pagerMessageId))

BotId(chat, id) == "bot:" \o ToString(chat) \o ":" \o ToString(id)

\* C2 as stated: the returned externalMessageId is "bot:<chat_id>:<id>" with
\* the id of the attachment-URL message when both messages were sent (else
\* of the only message sent), and "pager:<pagerMessageId>" when none was.
C2_PrefersAttachmentId ==
    Replied =>
        Val(rpResponse).body =
            IF rpSends = <<>> THEN PagerId(Val(rpReq).body)
            ELSE BotId(rpSends[1].chat, rpSends[Len(rpSends)].id)

\* C2 amended: the returned externalMessageId is "bot:<chat_id>:<id>" with
\* the id of the text message when both messages were sent (else of the only
\* message sent), and "pager:<pagerMessageId>" when none was.
C2_PrefersTextId ==
    Replied =>
        Val(rpResponse).body =
            IF rpSends = <<>> THEN PagerId(Val(rpReq).body)
            ELSE BotId(rpSends[1].chat, rpSends[1].id)

\* both messages were sent, with different ids, and the text message's id
\* was returned
C2_Witness ==
    /\ Replied
    /\ Len(rpSends) = 2
    /\ rpSends[1].id # rpSends[2].id
    /\ Val(rpResponse).body = BotId(rpChat, rpSends[1].id)

\* the entry is an object with a non-empty payload.url
HasUrl(a) == IsObject(a) /\ Truthy(a)

\* the URLs of the entries of atts that carry one, in list order
UrlsOf(atts) ==
    LET with == SelectSeq(atts, HasUrl)
    IN  [i \in 1..Len(with) |-> Val(with[i])]

FirstN(seq, n) == SubSeq(seq, 1, IF Len(seq) < n THEN Len(seq) ELSE n)

\* the messages the exchange sent after its text message, if it sent one
UrlMessages ==
    IF reply_text(Val(rpReq).body) = <<>> THEN rpSends ELSE Tail(rpSends)

\* the exchange sent exactly the URL message of urls, or none if urls is empty
SentUrls(urls) ==
    IF urls = <<>> THEN UrlMessages = <<>>
    ELSE /\ Len(UrlMessages) = 1
         /\ UrlMessages[1].text = join(urls)
         /\ UrlMessages[1].chat = rpChat

\* C10 as stated: skipped entries do not use up the limit: with k entries
\* carrying a URL, one message of the first min(20, k) URLs is sent if
\* k > 0, and none if k = 0.
C10_LimitCountsUrls ==
    Replied =>
        SentUrls(FirstN(UrlsOf(reply_attachments(Val(rpReq).body)), AttachLimit))

\* one of the first 20 entries of the attachment list is not an object
BadEntryRead(body) ==
    \E i \in 1..Min(AttachLimit, Len(reply_attachments(body))) :
        ~IsObject(reply_attachments(body)[i])

\* C10 amended: only the first 20 entries are read, and skipped entries use
\* up the limit: a reply answered with an externalMessageId sent one
\* message of the URLs that the first 20 entries carry, in list order and
\* joined by newlines, if there is any, and none otherwise, whether or not
\* a text message was sent before; and a reply that passed the checks with
\* an entry that is not an object among the first 20 is not answered with
\* an externalMessageId and sends no attachment message.
C10_LimitCountsEntries ==
    /\ Replied =>
          SentUrls(UrlsOf(FirstN(reply_attachments(Val(rpReq).body), AttachLimit)))
    /\ (rpPc = "done" /\ Authorized(Val(rpReq)) /\ Created(Val(rpReq))
          /\ BadEntryRead(Val(rpReq).body))
          => /\ Val(rpResponse).status # 200
             /\ Len(rpSends) <= (IF reply_text(Val(rpReq).body) = <<>> THEN 0 ELSE 1)

\* of 21 attachments the first has no URL: without a text message, one
\* message of the 19 URLs at positions 2..20 was sent
C10_Witness ==
    /\ Replied
    /\ reply_text(Val(rpReq).body) = <<>>
    /\ Val(rpReq).body.attachments = Some(MkAtts(AttachLimit + 1, {1}))
    /\ Len(rpSends) = 1
    /\ rpSends[1].text = join([i \in 1..(AttachLimit - 1) |-> Url(i + 1)])

====
